---------------------------- MODULE Spec2Model ----------------------------
(***************************************************************************)
(* Model of the AI-Chatbot repository.                                     *)
(*                                                                         *)
(*   app.py          the Flask relay service: route "/" (index) and route  *)
(*                   "/chat" (chat), sharing one provider client handle.   *)
(*   test_openai.py  the manual probe script: four Responses-API attempts  *)
(*                   and one legacy chat-completion attempt.               *)
(*                                                                         *)
(* Text a user types is a sequence of one-character strings, so that       *)
(* str.strip() is modelled by what it does.  Text produced by the provider *)
(* or by the handler is a TLA+ string.                                     *)
(***************************************************************************)
EXTENDS Integers, Sequences, FiniteSets, TLC

VARIABLES
    client,      \* app.py: the module-level provider client handle
    pc,          \* relay: position of each handler thread
    req,         \* relay: the HTTP request a handler thread is serving
    user_msg,    \* relay: chat()'s local variable user_msg, per invocation
    sent,        \* relay: provider requests issued while serving the request
    response,    \* relay: chat()'s local variable response (provider outcome)
    http,        \* relay: the HTTP response handed back to the browser
    ppc,         \* probe: position of the script
    attempts,    \* probe: provider attempts made so far, in order
    exc,         \* probe: outcome of the attempt made last
    printed      \* probe: lines printed by the step taken last

relayVars == <<client, pc, req, user_msg, sent, response, http>>
probeVars == <<ppc, attempts, exc, printed>>
vars == <<client, pc, req, user_msg, sent, response, http,
          ppc, attempts, exc, printed>>

---------------------------------------------------------------------------
(* Bounds of the model *)

MaxLen == 3          \* longest user message, in characters
MaxChoices == 2      \* most choices a provider response carries
MaxArgs == 2         \* most entries in an exception's args tuple

\* Two handler threads of the HTTP framework.  A thread that has answered a
\* request takes the next one, so any number of requests is served, and any
\* two of them can overlap.
Threads == {"t1", "t2"}

---------------------------------------------------------------------------
(* Text typed by the user *)

Whitespace == {" "}
Chars == {" ", "a"}

RECURSIVE StringsUpTo(_)
StringsUpTo(n) ==
    IF n = 0 THEN {<<>>}
    ELSE LET shorter == StringsUpTo(n - 1)
         IN  shorter \cup {Append(s, c) : s \in {t \in shorter : Len(t) = n - 1},
                                          c \in Chars}

UserTexts == StringsUpTo(MaxLen)

RECURSIVE lstrip(_)
lstrip(s) ==
    IF s = <<>> THEN s
    ELSE IF Head(s) \in Whitespace THEN lstrip(Tail(s)) ELSE s

RECURSIVE rstrip(_)
rstrip(s) ==
    IF s = <<>> THEN s
    ELSE IF s[Len(s)] \in Whitespace THEN rstrip(SubSeq(s, 1, Len(s) - 1)) ELSE s

\* a plausible slip: only the leading whitespace is removed
stripLeadingOnly(s) == lstrip(s)

\* str.strip() with no argument
strip(s) == rstrip(lstrip(s))

---------------------------------------------------------------------------
(* HTTP requests reaching the relay service *)

Methods == {"GET", "POST"}
Paths == {"/", "/chat"}

\* The JSON body, as far as chat() looks at it:
\*   nullbody  the body is the JSON literal null (get_json() gives None)
\*   absent    an object without a "message" field
\*   null      an object whose "message" field is null
\*   str       an object whose "message" field is the string s
Bodies ==
    {[t |-> k, s |-> <<>>] : k \in {"nullbody", "absent", "null"}}
      \cup {[t |-> "str", s |-> u] : u \in UserTexts}

\* bodies sent along with requests whose body no view function reads
UnreadBodies == {[t |-> "nullbody", s |-> <<>>], [t |-> "str", s |-> <<"a">>]}

Requests ==
    [method : {"POST"}, path : {"/chat"}, body : Bodies]
      \cup [method : Methods, path : Paths, body : UnreadBodies]

NoRequest == [method |-> "GET", path |-> "/", body |-> [t |-> "absent", s |-> <<>>]]

\* request.get_json() or {}
data(body) == IF body.t = "nullbody" THEN [t |-> "absent", s |-> <<>>] ELSE body

\* data.get("message", ""): the default only stands in for a missing key
message(d) == IF d.t = "absent" THEN [t |-> "str", s |-> <<>>] ELSE d

---------------------------------------------------------------------------
(* The provider *)

MODEL_ID == "llama-3.1-8b-instant"
SYSTEM_PROMPT == "You are a helpful AI assistant."
MAX_TOKENS == 500

Contents == {"Hi there!", "Other"}
ErrorTexts == {"rate limited", "invalid api key"}

RECURSIVE ChoiceLists(_)
ChoiceLists(n) ==
    IF n = 0 THEN {<<>>}
    ELSE LET shorter == ChoiceLists(n - 1)
         IN  shorter \cup {Append(s, c) : s \in {t \in shorter : Len(t) = n - 1},
                                          c \in Contents}

\* What client.chat.completions.create can do: return an object with a list
\* of choices, or raise an exception carrying a message.
Outcomes ==
    {[kind |-> "ok", choices |-> cs, err |-> ""] : cs \in ChoiceLists(MaxChoices)}
      \cup {[kind |-> "raise", choices |-> <<>>, err |-> e] : e \in ErrorTexts}

NoOutcome == [kind |-> "none", choices |-> <<>>, err |-> ""]

\* the keyword arguments of client.chat.completions.create
ProviderRequest(text) ==
    [model |-> MODEL_ID,
     messages |-> <<[role |-> "system", content |-> SYSTEM_PROMPT],
                    [role |-> "user", content |-> text]>>,
     max_tokens |-> MAX_TOKENS]

---------------------------------------------------------------------------
(* HTTP responses *)

\* jsonify({"reply": text}): status 200
jsonify(text) == [status |-> 200, json |-> TRUE, reply |-> text]

\* what the framework answers when no view function produced a response
HttpError(code) == [status |-> code, json |-> FALSE, reply |-> ""]

HtmlPage == [status |-> 200, json |-> FALSE, reply |-> ""]

NoResponse == [status |-> 0, json |-> FALSE, reply |-> ""]

EMPTY_PROMPT == "Please type something!"

\* a plausible slip: the last choice is read instead of the first
LastChoiceReply(resp) ==
    IF resp.choices = <<>>
    THEN jsonify("Error: list index out of range")
    ELSE jsonify(resp.choices[Len(resp.choices)])

\* response.choices[0].message.content, inside the try block: an empty list
\* raises IndexError, which the except clause turns into a reply
SuccessReply(resp) ==
    IF resp.choices = <<>>
    THEN jsonify("Error: list index out of range")
    ELSE jsonify(resp.choices[1])

\* a plausible slip: the exception is re-raised and the framework answers 500
ErrorReplyPropagates(resp) == HttpError(500)

\* except Exception as e: return jsonify({"reply": f"Error: {str(e)}"})
ErrorReply(resp) == jsonify("Error: " \o resp.err)


---------------------------------------------------------------------------
(* The relay service: app.py *)

\* a plausible slip: user_msg kept in a module-level variable, so that every
\* handler thread reads what the latest request stored
StoreShared(f, t, v) == [x \in DOMAIN f |-> v]

\* an assignment to a local variable of chat(): each invocation has its own
StoreLocal(f, t, v) == [f EXCEPT ![t] = v]

\* a plausible slip: the route also registered for GET
ChatMethodsWithGet == {"GET", "POST"}

\* @app.route("/chat", methods=["POST"])
ChatMethods == {"POST"}

\* @app.route("/"): GET is the default
IndexMethods == {"GET"}

RouteMethods(path) == IF path = "/chat" THEN ChatMethods ELSE IndexMethods

\* the framework hands a new request to a thread that serves none
Begin(t, r) ==
    /\ pc[t] = "idle"
    /\ req' = [req EXCEPT ![t] = r]
    /\ sent' = [sent EXCEPT ![t] = <<>>]
    /\ response' = [response EXCEPT ![t] = NoOutcome]

Finish(t, h) ==
    /\ http' = [http EXCEPT ![t] = h]
    /\ pc' = [pc EXCEPT ![t] = "done"]

\* the response has been sent: the invocation's frame is discarded and the
\* thread is ready for the next request
teardown(t) ==
    /\ pc[t] = "done"
    /\ pc' = [pc EXCEPT ![t] = "idle"]
    /\ req' = [req EXCEPT ![t] = NoRequest]
    /\ user_msg' = [user_msg EXCEPT ![t] = <<>>]
    /\ sent' = [sent EXCEPT ![t] = <<>>]
    /\ response' = [response EXCEPT ![t] = NoOutcome]
    /\ http' = [http EXCEPT ![t] = NoResponse]
    /\ UNCHANGED <<client, probeVars>>

\* a request whose method the route does not list: 405, no view function runs
method_not_allowed(t, r) ==
    /\ r.method \notin RouteMethods(r.path)
    /\ Begin(t, r)
    /\ Finish(t, HttpError(405))
    /\ user_msg' = [user_msg EXCEPT ![t] = <<>>]
    /\ UNCHANGED <<client, probeVars>>

\* def index(): return render_template("index.html")
index(t, r) ==
    /\ r.path = "/"
    /\ r.method \in RouteMethods(r.path)
    /\ Begin(t, r)
    /\ Finish(t, HtmlPage)
    /\ user_msg' = [user_msg EXCEPT ![t] = <<>>]
    /\ UNCHANGED <<client, probeVars>>

\* chat(), the two statements before the emptiness test:
\*     data = request.get_json() or {}
\*     user_msg = data.get("message", "").strip()
\* A null message is None, which has no strip(): AttributeError outside the
\* try block, which the framework answers with status 500.
chat_strip(t, r) ==
    /\ r.path = "/chat"
    /\ r.method \in RouteMethods(r.path)
    /\ Begin(t, r)
    /\ LET m == message(data(r.body))
       IN  IF m.t = "null"
           THEN /\ Finish(t, HttpError(500))
                /\ user_msg' = [user_msg EXCEPT ![t] = <<>>]
           ELSE /\ user_msg' = StoreLocal(user_msg, t, strip(m.s))
                /\ pc' = [pc EXCEPT ![t] = "check"]
                /\ http' = [http EXCEPT ![t] = NoResponse]
    /\ UNCHANGED <<client, probeVars>>

\* chat(): if not user_msg: return the fixed prompt; otherwise enter the try
\* block and issue client.chat.completions.create(...)
chat_call(t) ==
    /\ pc[t] = "check"
    /\ IF user_msg[t] = <<>>
       THEN /\ Finish(t, jsonify(EMPTY_PROMPT))
            /\ UNCHANGED sent
       ELSE /\ sent' = [sent EXCEPT ![t] = Append(@, ProviderRequest(user_msg[t]))]
            /\ pc' = [pc EXCEPT ![t] = "calling"]
            /\ UNCHANGED http
    /\ UNCHANGED <<client, req, user_msg, response, probeVars>>

\* a plausible slip: a failed call is issued a second time before replying
chat_reply_retrying(t, o) ==
    /\ pc[t] = "calling"
    /\ response' = [response EXCEPT ![t] = o]
    /\ sent' = [sent EXCEPT ![t] = IF o.kind = "ok" THEN @ ELSE Append(@, @[1])]
    /\ Finish(t, IF o.kind = "ok" THEN SuccessReply(o) ELSE ErrorReply(o))
    /\ UNCHANGED <<client, req, user_msg, probeVars>>

\* chat(): the blocking call comes back, returning a response object or
\* raising; the rest of the try block, or the except clause, builds the reply
chat_reply(t, o) ==
    /\ pc[t] = "calling"
    /\ response' = [response EXCEPT ![t] = o]
    /\ Finish(t, IF o.kind = "ok" THEN SuccessReply(o) ELSE ErrorReply(o))
    /\ UNCHANGED <<client, req, user_msg, sent, probeVars>>

---------------------------------------------------------------------------
(* The probe script: test_openai.py *)

None == "None"

\* a plausible slip: two entries of the list exchanged
PROBE_MODELS_SWAPPED == <<"gpt-4o-mini", "gpt-4o", "gpt-3.5-turbo", "gpt-4o-mini-tts">>

\* for m in ["gpt-4o", "gpt-4o-mini", "gpt-3.5-turbo", "gpt-4o-mini-tts"]
PROBE_MODELS == <<"gpt-4o", "gpt-4o-mini", "gpt-3.5-turbo", "gpt-4o-mini-tts">>

\* try_chat_completion("gpt-3.5-turbo")
FALLBACK_MODEL == "gpt-3.5-turbo"

\* entries of an exception's args: two that json.loads accepts, one it rejects
JsonArgs == {"{\"error\": 1}", "{\"error\": 2}"}
ExcArgs == JsonArgs \cup {"plain text"}

RECURSIVE ArgLists(_)
ArgLists(n) ==
    IF n = 0 THEN {<<>>}
    ELSE LET shorter == ArgLists(n - 1)
         IN  shorter \cup {Append(s, a) : s \in {t \in shorter : Len(t) = n - 1},
                                          a \in ExcArgs}

\* exceptions the provider SDK can raise: some carry http_body, some body
SdkExceptions ==
    [kind : {"raise"}, type : {"APIError"}, str : {"quota exceeded"},
     http_body : {None, "http body"}, body : {None, "body"},
     args : ArgLists(MaxArgs), text : {None}, choices : {0}]

\* a returned object: output_text for the Responses API (absent gives None),
\* the number of choices for the chat-completions API
SdkResults ==
    [kind : {"ok"}, type : {None}, str : {None}, http_body : {None},
     body : {None}, args : {<<>>}, text : {None, "Hello!"}, choices : {0, 1}]

ProbeOutcomes == SdkExceptions \cup SdkResults

NoProbeOutcome ==
    [kind |-> "none", type |-> None, str |-> None, http_body |-> None,
     body |-> None, args |-> <<>>, text |-> None, choices |-> 0]

\* resp.choices[0] on an empty list
IndexError ==
    [kind |-> "raise", type |-> "IndexError", str |-> "list index out of range",
     http_body |-> None, body |-> None,
     args |-> <<"list index out of range">>, text |-> None, choices |-> 0]

\* for a in e.args: try json.loads(a), print and break; except: pass
RECURSIVE ParsedArg(_)
ParsedArg(args) ==
    IF args = <<>> THEN <<>>
    ELSE IF Head(args) \in JsonArgs
         THEN <<"Parsed JSON from args: " \o Head(args)>>
         ELSE ParsedArg(Tail(args))

\* getattr(e, "http_body", None) or getattr(e, "body", None)
BodyOf(e) == IF e.http_body # None THEN e.http_body ELSE e.body

\* the except clause of try_responses
ResponsesDiagnostics(e) ==
    <<"Exception type: " \o e.type, "Exception str: " \o e.str>>
      \o (IF BodyOf(e) # None
          THEN <<"HTTP/body from exception: " \o BodyOf(e)>> ELSE <<>>)
      \o ParsedArg(e.args)
      \o <<"traceback">>

\* a plausible slip: the stack trace is not printed
ChatDiagnosticsNoTrace(e) ==
    <<"Exception type: " \o e.type, "Exception str: " \o e.str>>

\* the except clause of try_chat_completion
ChatDiagnostics(e) ==
    <<"Exception type: " \o e.type, "Exception str: " \o e.str, "traceback">>

\* try_responses(model), the call included
try_responses(o) ==
    /\ ppc.at = "loop"
    /\ LET model == PROBE_MODELS[ppc.i]
       IN  /\ attempts' = Append(attempts, [api |-> "responses", model |-> model])
           /\ exc' = o
           /\ printed' =
                <<"--- Trying Responses API with model: " \o model>>
                  \o (IF o.kind = "ok"
                      THEN <<"OK. output_text: " \o o.text, "Full resp object">>
                      ELSE ResponsesDiagnostics(o))
    /\ ppc' = IF ppc.i < Len(PROBE_MODELS)
              THEN [at |-> "loop", i |-> ppc.i + 1]
              ELSE [at |-> "fallback", i |-> ppc.i]
    /\ UNCHANGED relayVars

\* try_chat_completion(model), the call included
try_chat_completion(o) ==
    /\ ppc.at = "fallback"
    /\ LET model == FALLBACK_MODEL
           e == IF o.kind = "ok" /\ o.choices = 0 THEN IndexError ELSE o
       IN  /\ attempts' = Append(attempts, [api |-> "chat", model |-> model])
           /\ exc' = e
           /\ printed' =
                <<"--- Trying Chat Completions API with model: " \o model>>
                  \o (IF e.kind = "ok"
                      THEN <<"OK. choices[0].message">>
                      ELSE ChatDiagnostics(e))
    /\ ppc' = [ppc EXCEPT !.at = "finish"]
    /\ UNCHANGED relayVars

\* print("\nFinished tests.")
finished ==
    /\ ppc.at = "finish"
    /\ printed' = <<"Finished tests.">>
    /\ ppc' = [ppc EXCEPT !.at = "exit"]
    /\ UNCHANGED <<attempts, exc, relayVars>>

---------------------------------------------------------------------------
(* Specifications *)

\* client = Groq(api_key=...): built once, when the module is loaded
GroqClient == [api_key |-> "GROQ_API_KEY"]

Init ==
    /\ client = GroqClient
    /\ pc = [t \in Threads |-> "idle"]
    /\ req = [t \in Threads |-> NoRequest]
    /\ user_msg = [t \in Threads |-> <<>>]
    /\ sent = [t \in Threads |-> <<>>]
    /\ response = [t \in Threads |-> NoOutcome]
    /\ http = [t \in Threads |-> NoResponse]
    /\ ppc = [at |-> "loop", i |-> 1]
    /\ attempts = <<>>
    /\ exc = NoProbeOutcome
    /\ printed = <<>>

Next ==
    \/ \E t \in Threads, r \in Requests : method_not_allowed(t, r)
    \/ \E t \in Threads, r \in Requests : index(t, r)
    \/ \E t \in Threads, r \in Requests : chat_strip(t, r)
    \/ \E t \in Threads : chat_call(t)
    \/ \E t \in Threads, o \in Outcomes : chat_reply(t, o)
    \/ \E t \in Threads : teardown(t)

Spec == Init /\ [][Next]_vars

ProbeNext ==
    \/ \E o \in ProbeOutcomes : try_responses(o)
    \/ \E o \in ProbeOutcomes : try_chat_completion(o)
    \/ finished

\* the script is one sequential process: each call returns or raises, and
\* the interpreter then runs the next statement
ProbeSpec == Init /\ [][ProbeNext]_vars /\ WF_vars(ProbeNext)

---------------------------------------------------------------------------
(* Properties of the relay service *)

\* thread t has answered a POST to /chat
Served(t) == pc[t] = "done" /\ req[t].method = "POST" /\ req[t].path = "/chat"

AllWhitespace(s) == \A i \in 1..Len(s) : s[i] \in Whitespace

\* the message field is missing, null, empty or whitespace-only
Blank(b) == b.t \in {"nullbody", "absent", "null"} \/ AllWhitespace(b.s)

\* the message field is a string with a character that is not whitespace
NonBlank(b) == b.t = "str" /\ ~AllWhitespace(b.s)

\* u is s without its leading and trailing whitespace, and is not empty
Trimmed(u, s) ==
    \E i, j \in 1..Len(s) :
        /\ i <= j
        /\ u = SubSeq(s, i, j)
        /\ s[i] \notin Whitespace
        /\ s[j] \notin Whitespace
        /\ \A k \in 1..Len(s) : (k < i \/ k > j) => s[k] \in Whitespace

\* C1: every POST to /chat whose message field is missing, null, empty or
\* whitespace-only is answered with exactly "Please type something!", and
\* no provider call is made while serving it.
C1_EmptyInputPrompt ==
    \A t \in Threads :
        (Served(t) /\ Blank(req[t].body))
            => /\ http[t] = [status |-> 200, json |-> TRUE,
                             reply |-> "Please type something!"]
               /\ sent[t] = <<>>

\* the text of the exception the try block ends with, if it does
Raised(o) == o.kind = "raise" \/ (o.kind = "ok" /\ o.choices = <<>>)
RaisedText(o) == IF o.kind = "raise" THEN o.err ELSE "list index out of range"

\* C2: for a POST to /chat with a message that is not empty after trimming,
\* an exception of the provider call (an empty choices list included) is not
\* propagated: the answer is status 200 with reply "Error: " followed by the
\* exception's string form.
C2_ProviderErrorInBody ==
    \A t \in Threads :
        (Served(t) /\ NonBlank(req[t].body) /\ Raised(response[t]))
            => /\ http[t].status = 200
               /\ http[t].json
               /\ http[t].reply = "Error: " \o RaisedText(response[t])

C2_Witness ==
    \E t \in Threads :
        /\ Served(t)
        /\ NonBlank(req[t].body)
        /\ response[t].kind = "raise"
        /\ response[t].err = "rate limited"
        /\ http[t] = [status |-> 200, json |-> TRUE, reply |-> "Error: rate limited"]

\* C3: for a POST to /chat with a message that is not empty after trimming
\* and a provider call that succeeds, the reply is the content of the first
\* choice, unchanged, whatever the later choices are.
C3_FirstChoiceVerbatim ==
    \A t \in Threads :
        (Served(t) /\ NonBlank(req[t].body)
                   /\ response[t].kind = "ok" /\ response[t].choices # <<>>)
            => http[t] = [status |-> 200, json |-> TRUE,
                          reply |-> response[t].choices[1]]

C3_Witness ==
    \E t \in Threads :
        /\ Served(t)
        /\ req[t].body.s = <<"a">>
        /\ response[t].choices = <<"Hi there!", "Other">>
        /\ http[t].reply = "Hi there!"

\* C4: every POST to /chat, whatever the body and whatever the provider
\* does, ends with status 200 and a JSON body holding a reply.
C4_AlwaysReply200 ==
    \A t \in Threads : Served(t) => (http[t].status = 200 /\ http[t].json)

\* C5: for a POST to /chat with a message that is not empty after trimming,
\* the provider request carries the fixed model, a cap of 500 tokens and
\* exactly two turns: the system turn with the fixed persona, then a user
\* turn with the message of this request stripped of leading and trailing
\* whitespace; nothing of earlier requests is sent.
C5_ProviderRequestShape ==
    \A t \in Threads :
        /\ (pc[t] \in {"calling", "done"} /\ req[t].method = "POST"
              /\ req[t].path = "/chat" /\ NonBlank(req[t].body))
             => Len(sent[t]) = 1
        /\ \A n \in 1..Len(sent[t]) :
             /\ req[t].body.t = "str"
             /\ sent[t][n].model = "llama-3.1-8b-instant"
             /\ sent[t][n].max_tokens = 500
             /\ Len(sent[t][n].messages) = 2
             /\ sent[t][n].messages[1] =
                  [role |-> "system", content |-> "You are a helpful AI assistant."]
             /\ sent[t][n].messages[2].role = "user"
             /\ Trimmed(sent[t][n].messages[2].content, req[t].body.s)

C5_Witness ==
    \E t \in Threads :
        /\ req[t].body = [t |-> "str", s |-> <<" ", "a", " ">>]
        /\ Len(sent[t]) = 1
        /\ sent[t][1].messages[2].content = <<"a">>

\* C6: a POST to /chat makes at most one provider call: exactly one when the
\* trimmed message is not empty, none otherwise; a failed call is not
\* repeated, and the response exists only once the call has come back.
C6_AtMostOneCall ==
    \A t \in Threads :
        /\ Len(sent[t]) <= 1
        /\ Served(t) => (Len(sent[t]) = IF NonBlank(req[t].body) THEN 1 ELSE 0)
        /\ (sent[t] # <<>> /\ response[t].kind = "none") => http[t].status = 0
        /\ (sent[t] # <<>> /\ http[t].status # 0) => response[t].kind # "none"

C6_Witness ==
    \E t \in Threads :
        /\ Served(t)
        /\ response[t].kind = "raise"
        /\ Len(sent[t]) = 1
        /\ http[t].status = 200

\* C9: a GET to /chat never runs the chat handler: no provider call is made
\* for it and its answer is no reply of the chat logic.
C9_ChatPostOnly ==
    \A t \in Threads :
        (pc[t] # "idle" /\ req[t].method = "GET" /\ req[t].path = "/chat")
            => /\ pc[t] = "done"
               /\ sent[t] = <<>>
               /\ response[t].kind = "none"
               /\ ~http[t].json
               /\ http[t].status = 405

C9_Witness ==
    \E t \in Threads :
        /\ pc[t] = "done"
        /\ req[t] = [method |-> "GET", path |-> "/chat",
                     body |-> [t |-> "str", s |-> <<"a">>]]
        /\ http[t].status = 405

\* C10: the client handle stays the one built at start, and whatever the
\* interleaving, what a /chat request sends and what it answers depend on
\* its own message and the outcome of its own provider call only: two
\* requests with the same body send the same, and with the same outcome
\* answer the same.
C10_NoInterference ==
    /\ client = [api_key |-> "GROQ_API_KEY"]
    /\ \A t1, t2 \in Threads :
         (Served(t1) /\ Served(t2) /\ req[t1].body = req[t2].body)
            => /\ sent[t1] = sent[t2]
               /\ response[t1] = response[t2] => http[t1] = http[t2]

C10_Witness ==
    \E t1, t2 \in Threads :
        /\ Served(t1)
        /\ response[t1].kind = "ok"
        /\ http[t1].reply = "Other"
        /\ pc[t2] = "calling"
        /\ user_msg[t1] = <<"a">>
        /\ user_msg[t2] = <<"a", "a">>

---------------------------------------------------------------------------
(* Properties of the probe script *)

ExpectedAttempts ==
    <<[api |-> "responses", model |-> "gpt-4o"],
      [api |-> "responses", model |-> "gpt-4o-mini"],
      [api |-> "responses", model |-> "gpt-3.5-turbo"],
      [api |-> "responses", model |-> "gpt-4o-mini-tts"],
      [api |-> "chat", model |-> "gpt-3.5-turbo"]>>

\* C7: the probe script makes exactly five attempts in a fixed order, four
\* Responses-API calls (gpt-4o, gpt-4o-mini, gpt-3.5-turbo, gpt-4o-mini-tts)
\* and then one legacy chat-completion call for gpt-3.5-turbo; an exception
\* in an attempt neither stops nor skips the later ones, and the script
\* always reaches its "Finished tests." step.
C7_FiveAttemptsInOrder ==
    /\ [](Len(attempts) <= 5 /\ attempts = SubSeq(ExpectedAttempts, 1, Len(attempts)))
    /\ [](ppc.at = "exit" => (attempts = ExpectedAttempts
                                /\ printed = <<"Finished tests.">>))
    /\ <>(ppc.at = "exit")

C7_Witness ==
    /\ ppc.at = "exit"
    /\ exc.kind = "raise"
    /\ Len(attempts) = 5

\* the legacy attempt has just failed
LegacyFailed == ppc.at = "finish" /\ exc.kind = "raise"

\* C8 as stated: a failed legacy chat-completion call prints the diagnostics
\* of a failed per-model attempt: type name, string form, any embedded HTTP
\* body, any JSON-parseable argument, then the stack trace.
C8_SameDiagnostics ==
    LegacyFailed => Tail(printed) = ResponsesDiagnostics(exc)

\* C8 as amended: a failed legacy chat-completion call prints the type name,
\* the string form and the stack trace only, which is what a failed
\* per-model attempt prints for an exception without an HTTP body and
\* without a JSON-parseable argument.
C8_BasicDiagnosticsOnly ==
    LegacyFailed =>
        /\ Len(printed) = 4
        /\ Tail(printed) =
             ResponsesDiagnostics([exc EXCEPT !.http_body = None,
                                              !.body = None, !.args = <<>>])

C8_Witness ==
    /\ LegacyFailed
    /\ exc.http_body # None
    /\ \E n \in 1..Len(exc.args) : exc.args[n] \in JsonArgs

=============================================================================
